---- MODULE Spec2Model ----
(***************************************************************************)
(* Tweet link saver: the browser client (src/app.js, the current client    *)
(* that starts at line 1133) and the proxy server (src/server.js).         *)
(*                                                                         *)
(* Spec       the client: save, delete, undo, select, thread loads, key    *)
(*            verification and page reload, with every asynchronous        *)
(*            completion as a step of its own.                             *)
(* SpecInit   client start-up (initialize) over arbitrary storage.         *)
(* SpecProxy  the server's /api/verify, /api/tweets and /api/thread.       *)
(* SpecKeys   the server's /api/user/api-key store.                        *)
(* SpecSequence  buildThreadSequence as a function of its arguments.       *)
(* SpecAccount   the client's sign-in state and cloud copy of the API key. *)
(***************************************************************************)
EXTENDS Integers, Sequences, FiniteSets, TLC

\* ------------------------------------------------------------------ bounds
NumTweets == 2        \* distinct tweet ids the user can paste
MaxItems == 2        \* entries of state.items
MaxClock == 1         \* Date.now() ranges over 0..MaxClock
MaxThreadReqs == 1    \* /api/thread requests in flight per tweet id
MaxOverlap == 2       \* the same, where the loads of one tweet overlap
MaxFetched == 3       \* entries of all pages a /api/thread request reads
NumUsers == 2         \* users of /api/user/api-key
NumIvs == 1           \* values crypto.randomBytes(12) returns
MaxThreadLen == 2      \* fetched tweets buildThreadSequence is given
MaxVerifyReqs == 1    \* /api/verify requests in flight per key and caller
MaxFetchReqs == 1     \* GET /api/user/api-key requests in flight
MaxStoreReqs == 1     \* POST /api/user/api-key requests in flight per key

\* JS null / undefined in a string-valued or number-valued slot.
Null == "null"
\* JS null in an object-valued slot.
NoRec == <<>>

TweetIds == {"t" \o ToString(i) : i \in 1..NumTweets}
Keys == {"k1"}
\* The keys an account store may hold before the client writes to it.
StoreKeys == {"k2"}
\* authenticateKey's arguments.
VerifyRequests == [key : Keys \cup StoreKeys, skipRemoteStore : BOOLEAN]
NoStoreReqs == [k \in Keys \cup StoreKeys |-> 0]
\* data.credits of a 200 of /api/verify: a number, written as its decimal
\* string, or Null for none.
CreditsAnswers == {Null, "1"}

VARIABLES
  items,            \* state.items
  storedItems,      \* localStorage[STORAGE_KEYS.ITEMS], parsed; Null when absent
  threads,          \* state.threads: tweetId -> ThreadCacheEntry
  storedThreads,    \* localStorage[STORAGE_KEYS.THREADS], parsed; NoRec when absent
  threadStatus,     \* state.threadStatus: tweetId -> {loading, error}
  activeTweetId,    \* state.activeTweetId
  apiKey,           \* state.apiKey
  isSaving,         \* state.isSaving
  isAuthenticating, \* state.isAuthenticating
  apiKeyModalOpen,  \* elements.modal is shown (its class list lacks 'hidden')
  undoState,        \* undoState
  contextMenuState, \* contextMenuState
  saves,            \* handleSave continuations awaiting fetchTweet
  threadReqs,       \* loadThread continuations awaiting /api/thread, per tweetId
  verifyReqs,       \* authenticateKey continuations awaiting /api/verify, per key
  now,              \* Date.now() in the browser
  beforeDelete,     \* history: what the last deleteItem of the context menu
                    \* found, NoRec once a save, a delete or an undo followed
  failedLoads,      \* history: the tweet ids whose last answered thread load
                    \* failed, with no Retry pressed since
  \* --- the client's account: sign-in and the cloud copy of the API key
  authAvailable,    \* state.auth.available: a Firebase config was found
  authStatus,       \* state.auth.status
  keyPromptPending, \* state.keyPromptPending
  credits,          \* state.credits, Null or a number
  remoteKey,        \* what GET /api/user/api-key answers the signed-in user
                    \* with: the key of the account store, Null for a 204
  fetchReqs,        \* refreshRemoteApiKey continuations awaiting
                    \* fetchRemoteApiKey
  storeReqs,        \* storeRemoteApiKey calls not yet over, per key
  syncWarning,      \* what the last refreshRemoteApiKey gave console.warn:
                    \* "fetch" or "verify", Null for nothing
  storedApiKey,     \* the API key in localStorage, Null when there is none
  \* --- the server's proxy routes, one request at a time (a handler's
  \*     variables are its own, so requests do not affect each other)
  pxReq,            \* the request being handled, NoRec before the first
  pxPhase,          \* "idle", "await" (a provider request is out) or "done"
  pxForwards,       \* X-API-Key of each provider request sent for pxReq
  pxStatus,         \* status of the response to pxReq, NoNum before it
  pxTweets,         \* tweets of a 200 response of /api/thread
  seenIds,          \* /api/thread: seenIds
  collectedTweets,  \* /api/thread: collectedTweets
  hasNextPage,      \* /api/thread: hasNextPage
  nextCursor,       \* /api/thread: nextCursor
  attempts,         \* /api/thread: attempts
  rootTweetId,      \* /api/thread: rootTweetId
  pxPages,          \* every entry of every page read for pxReq, in order
  \* --- the server's key store
  keyStoreCache,    \* keyStoreCache: [isNull, store]
  keyStoreFile,     \* data/api-keys.json: [exists, store]
  firebaseAuth,     \* firebaseAuth is set (the admin SDK was initialized)
  encryptionKey,    \* encryptionKey, Null without ENCRYPTION_SECRET
  ksReq,            \* the last request of /api/user/api-key, NoRec before it
  ksResp,           \* the last response of /api/user/api-key, NoRec before it
  ksExpected,       \* per uid, the key of its last POST answered 204 with no
                    \* DELETE answered 204 since; <<>> when there is none
  \* --- the detail view's thread, as a function of what it is given
  threadRoot,       \* buildThreadSequence: rootTweet, NoRec before a call
  threadFetched,    \* buildThreadSequence: fetchedTweets
  threadSequence    \* buildThreadSequence: what it returned

clientVars == <<items, storedItems, threads, storedThreads, threadStatus,
                activeTweetId, apiKey, isSaving, isAuthenticating,
                apiKeyModalOpen, undoState, contextMenuState, saves,
                threadReqs, verifyReqs, now>>

accountVars == <<authAvailable, authStatus, keyPromptPending, credits,
                 remoteKey, fetchReqs, storeReqs, syncWarning, storedApiKey>>

proxyVars == <<pxReq, pxPhase, pxForwards, pxStatus, pxTweets, seenIds,
               collectedTweets, hasNextPage, nextCursor, attempts, rootTweetId,
               pxPages>>

keyVars == <<keyStoreCache, keyStoreFile, firebaseAuth, encryptionKey, ksReq, ksResp,
             ksExpected>>

sequenceVars == <<threadRoot, threadFetched, threadSequence>>

historyVars == <<beforeDelete, failedLoads>>

vars == <<clientVars, historyVars, accountVars, proxyVars, keyVars, sequenceVars>>

\* ------------------------------------------------------------- sequences
RemoveAt(s, i) == SubSeq(s, 1, i - 1) \o SubSeq(s, i + 1, Len(s))
InsertAt(s, i, e) == SubSeq(s, 1, i - 1) \o <<e>> \o SubSeq(s, i, Len(s))
\* Array.prototype.findIndex, 1-based; 0 when nothing matches (JS -1).
FindIndex(s, tweetId, pendingOnly) ==
  LET hit(i) == s[i].tweetId = tweetId /\ (pendingOnly => s[i].isPending)
  IN IF \E i \in 1..Len(s) : hit(i)
     THEN CHOOSE i \in 1..Len(s) : hit(i) /\ \A j \in 1..(i - 1) : ~hit(j)
     ELSE 0
Min(a, b) == IF a <= b THEN a ELSE b
\* delete obj[key]
Drop(f, k) == [x \in DOMAIN f \ {k} |-> f[x]]
\* obj[key] = value
Put(f, k, v) == [x \in DOMAIN f \cup {k} |-> IF x = k THEN v ELSE f[x]]

\* JS null / undefined in a number-valued slot (typeof x !== 'number').
NoNum == 0 - 1
IsNumber(x) == x # NoNum

\* ------------------------------------------------------------ client data
\* `pending-${Date.now()}` (src/app.js:1603); never a string of digits, so
\* never a tweet id that extractTweetId returns.
PlaceholderId(t) == "pending-" \o ToString(t)

\* A SavedItem. url and tweet are opaque payloads that no modelled operation
\* reads; isPending FALSE stands for the absent field.
Item(id, t, pending) == [tweetId |-> id, savedAt |-> t, isPending |-> pending]

\* A tweet of a thread payload, with the four places an id may sit in.
Tweet(a, b, c, d) == [id |-> a, tweet_id |-> b, tweetId |-> c, rest_id |-> d]

Or(a, b) == IF a # Null THEN a ELSE b

getTweetId(tweet) ==
  Or(tweet.id, Or(tweet.tweet_id, Or(tweet.tweetId, tweet.rest_id)))

RECURSIVE sanitizeFrom(_, _)
sanitizeFrom(tweets, seen) ==
  IF tweets = <<>> THEN <<>>
  ELSE LET entry == Head(tweets)
           id == getTweetId(entry)
       IN IF id = Null \/ id \in seen
          THEN sanitizeFrom(Tail(tweets), seen)
          ELSE <<[entry EXCEPT !.id = id]>> \o sanitizeFrom(Tail(tweets), seen \cup {id})

sanitizeThreadTweets(tweets) == sanitizeFrom(tweets, {})

\* The body of a /api/thread response as loadThread reads it.
ThreadData(ok, isArray, tweets, fetchedAt, root) ==
  [ok |-> ok, isArray |-> isArray, tweets |-> tweets, fetchedAt |-> fetchedAt,
   rootTweetId |-> root]

\* The server answers with fetchedAt a number (src/server.js:360).
ThreadResponses ==
  { ThreadData(FALSE, FALSE, <<>>, NoNum, Null),
    ThreadData(TRUE, TRUE, <<>>, 0, Null),
    ThreadData(TRUE, TRUE, <<Tweet(Null, Null, Null, Null)>>, 0, "a"),
    ThreadData(TRUE, TRUE,
               <<Tweet("a", Null, Null, Null), Tweet(Null, "a", Null, Null)>>,
               0, "a") }

\* localStorage values: the key is absent, holds text JSON.parse rejects, or
\* holds a parsed value. JSON.stringify followed by JSON.parse returns the
\* numbers, strings, booleans, arrays and plain objects stored here as they were.
Stored(kind, val) == [kind |-> kind, val |-> val]
Absent == Stored("absent", <<>>)

ensureThreadStatus(status, tweetId) ==
  IF tweetId \in DOMAIN status THEN status
  ELSE Put(status, tweetId, [loading |-> FALSE, error |-> Null])

updateThreadStatus(status, tweetId, loading, error) ==
  Put(ensureThreadStatus(status, tweetId), tweetId,
      [loading |-> loading, error |-> error])

\* persistThreads: the new value of the thread-cache storage key.
persistThreads(thr, t) ==
  LET keep == {id \in DOMAIN thr : Len(thr[id].tweets) > 0}
  IN IF keep = {} THEN Absent
     ELSE Stored("object",
            [id \in keep |->
               [tweets |-> thr[id].tweets,
                fetchedAt |-> IF IsNumber(thr[id].fetchedAt)
                              THEN thr[id].fetchedAt ELSE t,
                rootTweetId |-> thr[id].rootTweetId]])

persistItems(its) == Stored("array", its)

\* A list in which no tweet is ever found: C17 fails of it.
HasItemNever(its, id) == FALSE

\* state.items.some((item) => item.tweetId === id)
HasItem(its, id) == \E i \in 1..Len(its) : its[i].tweetId = id

\* renderDetail and the synchronous part of loadThread, which call each other.
\* m holds what they write: [active, status, reqs]; they read the items, the
\* thread cache and the key.
RECURSIVE renderDetail(_, _, _, _)
RECURSIVE loadThread(_, _, _, _, _, _)
renderDetail(m, its, thr, key) ==
  IF m.active = Null THEN m
  ELSE IF ~HasItem(its, m.active) THEN [m EXCEPT !.active = Null]
  ELSE LET id == m.active
           m1 == [m EXCEPT !.status = ensureThreadStatus(m.status, id)]
       IN IF /\ id \notin DOMAIN thr
             /\ key # Null
             /\ ~m1.status[id].loading
             /\ m1.status[id].error = Null
          THEN loadThread(m1, id, FALSE, its, thr, key)
          ELSE m1

\* loadThread without its test of the cache: C14 fails of it.
loadThreadUncached(m, tweetId, force, its, thr, key) ==
  IF tweetId = Null \/ key = Null THEN m
  ELSE LET st == ensureThreadStatus(m.status, tweetId)
       IN IF st[tweetId].loading THEN [m EXCEPT !.status = st]
          ELSE LET m2 == [m EXCEPT !.status =
                            updateThreadStatus(st, tweetId, TRUE, Null)]
                   m3 == renderDetail(m2, its, thr, key)
               IN [m3 EXCEPT !.reqs[tweetId] = @ + 1]

loadThread(m, tweetId, force, its, thr, key) ==
  IF tweetId = Null \/ key = Null THEN m
  ELSE IF ~force /\ tweetId \in DOMAIN thr /\ Len(thr[tweetId].tweets) > 0 THEN m
  ELSE LET st == ensureThreadStatus(m.status, tweetId)
       IN IF st[tweetId].loading THEN [m EXCEPT !.status = st]
          ELSE LET m2 == [m EXCEPT !.status =
                            updateThreadStatus(st, tweetId, TRUE, Null)]
                   m3 == renderDetail(m2, its, thr, key)
               IN [m3 EXCEPT !.reqs[tweetId] = @ + 1]

\* What loadThread returns where it returns before its await: [early, value],
\* value NoRec for null; early is FALSE where it goes on to the request.
loadThreadReturn(status, tweetId, force, thr, key) ==
  IF tweetId = Null \/ key = Null THEN [early |-> TRUE, value |-> NoRec]
  ELSE IF ~force /\ tweetId \in DOMAIN thr /\ Len(thr[tweetId].tweets) > 0
  THEN [early |-> TRUE, value |-> thr[tweetId]]
  ELSE [early |-> ensureThreadStatus(status, tweetId)[tweetId].loading,
        value |-> NoRec]

View == [active |-> activeTweetId, status |-> threadStatus, reqs |-> threadReqs]

SetView(m) ==
  /\ \A id \in TweetIds : m.reqs[id] <= MaxOverlap
  /\ activeTweetId' = m.active
  /\ threadStatus' = m.status
  /\ threadReqs' = m.reqs

\* ------------------------------------------------- the thread of a tweet
\* buildThreadSequence has not been called.
SequenceIdle ==
  /\ threadRoot = NoRec
  /\ threadFetched = <<>>
  /\ threadSequence = <<>>

\* --------------------------------------------------- the server's key store
Uids == {"u" \o ToString(i) : i \in 1..NumUsers}

\* keyStoreCache = null, no data/api-keys.json, no request answered yet.
KeysIdle ==
  /\ keyStoreCache = [isNull |-> TRUE, store |-> <<>>]
  /\ keyStoreFile = [exists |-> FALSE, store |-> <<>>]
  /\ ksReq = NoRec
  /\ ksResp = NoRec
  /\ ksExpected = [u \in Uids |-> <<>>]

\* A server with the admin SDK initialized and ENCRYPTION_SECRET set.
KeysConfigured ==
  /\ firebaseAuth = TRUE
  /\ encryptionKey = "secret"

\* ------------------------------------------------------- the server's proxy
ProxyIdle ==
  /\ pxReq = NoRec
  /\ pxPhase = "idle"
  /\ pxForwards = <<>>
  /\ pxStatus = NoNum
  /\ pxTweets = <<>>
  /\ seenIds = {}
  /\ collectedTweets = <<>>
  /\ hasNextPage = FALSE
  /\ nextCursor = ""
  /\ attempts = 0
  /\ rootTweetId = Null
  /\ pxPages = <<>>

\* Values of a request's JSON body and headers, by typeof. A string that is a
\* key is the sequence of its characters, for trim to work on.
JsStr(v) == [type |-> "string", val |-> v]
Undefined == [type |-> "undefined"]
JsNum == [type |-> "number"]

RECURSIVE TrimStart(_)
TrimStart(chars) ==
  IF chars # <<>> /\ Head(chars) = " " THEN TrimStart(Tail(chars)) ELSE chars

RECURSIVE TrimEnd(_)
TrimEnd(chars) ==
  IF chars # <<>> /\ chars[Len(chars)] = " "
  THEN TrimEnd(SubSeq(chars, 1, Len(chars) - 1)) ELSE chars

\* String.prototype.trim
Trim(chars) == TrimEnd(TrimStart(chars))

\* extractApiKey with the header consulted first: C9 fails of it.
extractApiKeyHeaderFirst(req) ==
  IF req.xApiKey.type = "string" /\ Trim(req.xApiKey.val) # <<>>
  THEN Trim(req.xApiKey.val)
  ELSE IF req.apiKey.type = "string" /\ Trim(req.apiKey.val) # <<>>
  THEN Trim(req.apiKey.val)
  ELSE <<>>

\* extractApiKey: the key, or <<>> for null (and then the 400 is sent).
extractApiKey(req) ==
  IF req.apiKey.type = "string" /\ Trim(req.apiKey.val) # <<>>
  THEN Trim(req.apiKey.val)
  ELSE IF req.xApiKey.type = "string" /\ Trim(req.xApiKey.val) # <<>>
  THEN Trim(req.xApiKey.val)
  ELSE <<>>

Request(route, bodyKey, headerKey, tweetId, cursor) ==
  [route |-> route, apiKey |-> bodyKey, xApiKey |-> headerKey,
   tweetId |-> tweetId, cursor |-> cursor]

\* a ?? b
Coalesce(a, b) == IF a # Null THEN a ELSE b

\* entry?.id || entry?.tweet_id || entry?.tweetId
entryId(entry) == Or(entry.id, Or(entry.tweet_id, entry.tweetId))

\* The for loop over a page without its seenIds test: C8 fails of it.
RECURSIVE collectPageUnseen(_, _, _)
collectPageUnseen(page, seen, collected) ==
  IF page = <<>> THEN [seen |-> seen, collected |-> collected]
  ELSE LET id == entryId(Head(page))
       IN IF id = Null
          THEN collectPageUnseen(Tail(page), seen, collected)
          ELSE collectPageUnseen(Tail(page), seen \cup {id},
                                 Append(collected, Head(page)))

\* The for loop over a page: [seen, collected] after it.
RECURSIVE collectPage(_, _, _)
collectPage(page, seen, collected) ==
  IF page = <<>> THEN [seen |-> seen, collected |-> collected]
  ELSE LET id == entryId(Head(page))
       IN IF id = Null \/ id \in seen
          THEN collectPage(Tail(page), seen, collected)
          ELSE collectPage(Tail(page), seen \cup {id},
                           Append(collected, Head(page)))

maxPages == 8

\* The do-while's condition without its page cap: C7 fails of it.
morePagesUncapped(has, cursor, n) == has /\ cursor # ""

\* The do-while's condition (src/server.js:355).
morePages(has, cursor, n) == has /\ cursor # "" /\ n < maxPages

\* A provider payload of /twitter/tweet/thread_context.
ThreadPayload(tweets, replies, paging, root) ==
  [tweets |-> tweets, replies |-> replies,
   has_next_page |-> paging[1], hasNextPage |-> paging[2],
   next_cursor |-> paging[3], nextCursor |-> paging[4],
   tweet |-> [id |-> root[1]], original_tweet_id |-> root[2],
   originalTweetId |-> root[3]]

\* A field that may hold an array: [isArray, val].
Arr(val) == [isArray |-> TRUE, val |-> val]
NotArr == [isArray |-> FALSE, val |-> <<>>]

pageTweets(payload) ==
  IF payload.tweets.isArray THEN payload.tweets.val
  ELSE IF payload.replies.isArray THEN payload.replies.val
  ELSE <<>>

\* --------------------------------------------------------- client start-up
\* The `state` literal (src/app.js:1182) and the module-level lets.
ClientFresh ==
  /\ items = <<>>
  /\ threads = <<>>
  /\ threadStatus = <<>>
  /\ activeTweetId = Null
  /\ apiKey = Null
  /\ isSaving = FALSE
  /\ isAuthenticating = FALSE
  /\ apiKeyModalOpen = FALSE
  /\ undoState = NoRec
  /\ contextMenuState = NoRec
  /\ saves = {}
  /\ threadReqs = [id \in TweetIds |-> 0]
  /\ verifyReqs = [r \in VerifyRequests |-> 0]
  /\ beforeDelete = NoRec
  /\ failedLoads = {}

\* The account's part of the page once initialize has run, with
\* resolveFirebaseConfig giving a config (available) or none, for a user
\* with nothing in the account store.
AccountFresh(available) ==
  /\ authAvailable = available
  /\ authStatus = IF available THEN "initializing" ELSE "offline-only"
  /\ keyPromptPending = TRUE
  /\ credits = Null
  /\ remoteKey = Null
  /\ fetchReqs = 0
  /\ storeReqs = NoStoreReqs
  /\ syncWarning = Null
  /\ storedApiKey = Null

\* persistApiKey writing the key to localStorage: C16 fails of it.
persistApiKeyStored(stored, key) == key

\* persistApiKey, as what it leaves in localStorage for the key: its body is
\* a comment.
persistApiKey(stored, key) == stored

\* authenticateKey dropping the key after a failed verification: C19 fails
\* of it.
keyAfterVerifyOrNone(key, ok, current) == IF ok THEN key ELSE Null

\* state.apiKey after authenticateKey(key): the assignment of
\* src/app.js:2696 is reached only past the throw for a response not ok.
keyAfterVerify(key, ok, current) == IF ok THEN key ELSE current

\* authenticateKey with no test of skipRemoteStore: C18 fails of it.
storesRemotelyAlways(req, status) == status = "signed-in"

\* authenticateKey's test before storeRemoteApiKey (src/app.js:2700).
storesRemotely(req, status) ==
  ~req.skipRemoteStore /\ status = "signed-in"

loadStoredItems(raw) ==
  IF raw.kind = "array"
  THEN SelectSeq(raw.val, LAMBDA entry : entry # NoRec /\ entry.tweetId # Null)
  ELSE <<>>

\* A stored entry whose tweets is no array reads as one with no tweets
\* (src/app.js:1468), so it is written here with tweets <<>>.
loadStoredThreads(raw) ==
  IF raw.kind = "object"
  THEN LET ok == {id \in DOMAIN raw.val :
                    /\ raw.val[id] # NoRec
                    /\ Len(raw.val[id].tweets) > 0}
       IN [id \in ok |-> [tweets |-> raw.val[id].tweets,
                           fetchedAt |-> raw.val[id].fetchedAt,
                           rootTweetId |-> raw.val[id].rootTweetId]]
  ELSE <<>>

\* removeOrphanedThreads: the thread cache it leaves in memory.
removeOrphanedThreads(thr, its) ==
  [id \in {k \in DOMAIN thr : HasItem(its, k)} |-> thr[id]]

\* initialize, run on DOMContentLoaded: a first load or a reload of the page.
\* The page's memory starts from the state literal and every request of the
\* previous page is gone with it.
initialize ==
  LET its == loadStoredItems(storedItems)
      loaded == loadStoredThreads(storedThreads)
      thr == removeOrphanedThreads(loaded, its)
  IN /\ items' = its
     /\ threads' = thr
     /\ storedThreads' = IF thr # loaded THEN persistThreads(thr, now)
                         ELSE storedThreads
     /\ threadStatus' = <<>>
     /\ activeTweetId' = Null
     /\ apiKey' = Null
     /\ isSaving' = FALSE
     /\ isAuthenticating' = FALSE
     /\ apiKeyModalOpen' = FALSE
     /\ undoState' = NoRec
     /\ contextMenuState' = NoRec
     /\ saves' = {}
     /\ threadReqs' = [id \in TweetIds |-> 0]
     /\ verifyReqs' = [r \in VerifyRequests |-> 0]
     /\ authStatus' = IF authAvailable THEN "initializing" ELSE "offline-only"
     /\ keyPromptPending' = TRUE
     /\ credits' = Null
     /\ fetchReqs' = 0
     /\ syncWarning' = Null
     /\ UNCHANGED <<storedItems, now, authAvailable, remoteKey, storeReqs,
                    storedApiKey>>

\* ------------------------------------------------------------------- save
\* handleSave with no test of a save or a verification under way: C20 fails
\* of it.
saveBlockedNever(saving, authenticating) == FALSE

\* handleSave's first test (src/app.js:1578).
saveBlocked(saving, authenticating) == saving \/ authenticating

\* handleSave up to its await. input is extractTweetId of the text box: a
\* tweet id, or Null for text that is no tweet link.
handleSave(input) ==
  IF saveBlocked(isSaving, isAuthenticating) THEN UNCHANGED vars
  ELSE IF apiKey = Null
  THEN /\ apiKeyModalOpen' = TRUE
       /\ UNCHANGED <<accountVars, items, storedItems, threads, storedThreads, threadStatus,
                      activeTweetId, apiKey, isSaving, isAuthenticating,
                      undoState, contextMenuState, saves, threadReqs,
                      verifyReqs, now>>
  ELSE IF input = Null \/ HasItem(items, input) THEN UNCHANGED vars
  ELSE LET placeholderId == PlaceholderId(now)
       IN /\ Len(items) < MaxItems
          /\ isSaving' = TRUE
          /\ items' = <<Item(placeholderId, now, TRUE)>> \o items
          /\ contextMenuState' = NoRec
          /\ saves' = saves \cup {[tweetId |-> input, placeholderId |-> placeholderId]}
          /\ UNCHANGED <<accountVars, apiKeyModalOpen, storedItems, threads, storedThreads, threadStatus,
                         activeTweetId, apiKey, isAuthenticating, undoState,
                         threadReqs, verifyReqs, now>>

RemovePlaceholder(its, placeholderId) ==
  LET i == FindIndex(its, placeholderId, TRUE)
  IN IF i # 0 THEN RemoveAt(its, i) ELSE its

\* handleSave after fetchTweet returned a tweet.
saveSucceeds(req) ==
  LET its == <<Item(req.tweetId, now, FALSE)>>
               \o RemovePlaceholder(items, req.placeholderId)
      m1 == IF activeTweetId # Null
            THEN renderDetail(View, its, threads, apiKey) ELSE View
      m2 == loadThread(m1, req.tweetId, FALSE, its, threads, apiKey)
  IN /\ req \in saves
     /\ items' = its
     /\ storedItems' = persistItems(its)
     /\ contextMenuState' = NoRec
     /\ SetView(m2)
     /\ isSaving' = FALSE
     /\ saves' = saves \ {req}
     /\ UNCHANGED <<accountVars, apiKeyModalOpen, threads, storedThreads, apiKey, isAuthenticating, undoState,
                    verifyReqs, now>>

\* handleSave after fetchTweet threw.
saveFails(req) ==
  LET its == RemovePlaceholder(items, req.placeholderId)
  IN /\ req \in saves
     /\ items' = its
     /\ contextMenuState' = IF its # items THEN NoRec ELSE contextMenuState
     /\ isSaving' = FALSE
     /\ saves' = saves \ {req}
     /\ UNCHANGED <<accountVars, apiKeyModalOpen, storedItems, threads, storedThreads, threadStatus,
                    activeTweetId, apiKey, isAuthenticating, undoState,
                    threadReqs, verifyReqs, now>>

\* ---------------------------------------------------------- delete and undo
\* The contextmenu listener renderItems puts on every item that is not pending.
openContextMenu(i) ==
  /\ i \in 1..Len(items)
  /\ ~items[i].isPending
  /\ contextMenuState' = [item |-> items[i], index |-> i - 1]
  /\ UNCHANGED <<accountVars, apiKeyModalOpen, items, storedItems, threads, storedThreads, threadStatus,
                 activeTweetId, apiKey, isSaving, isAuthenticating, undoState,
                 saves, threadReqs, verifyReqs, now>>

\* deleteItem without its persistThreads call: C4 fails of it.
deleteItemNoPersistThreads(tweetId) ==
  LET index == FindIndex(items, tweetId, FALSE)
  IN IF index = 0
     THEN [found |-> FALSE, items |-> items, storedItems |-> storedItems,
           threads |-> threads, storedThreads |-> storedThreads,
           status |-> threadStatus, active |-> activeTweetId, result |-> NoRec]
     ELSE [found |-> TRUE,
           items |-> RemoveAt(items, index),
           storedItems |-> persistItems(RemoveAt(items, index)),
           threads |-> Drop(threads, tweetId),
           storedThreads |-> storedThreads,
           status |-> Drop(threadStatus, tweetId),
           active |-> IF activeTweetId = tweetId THEN Null ELSE activeTweetId,
           result |-> [item |-> items[index], index |-> index - 1,
                       thread |-> IF tweetId \in DOMAIN threads
                                  THEN threads[tweetId] ELSE NoRec]]

\* deleteItem: what it leaves and what it returns, [found |-> FALSE] for null.
deleteItem(tweetId) ==
  LET index == FindIndex(items, tweetId, FALSE)
      thr == Drop(threads, tweetId)
  IN IF index = 0
     THEN [found |-> FALSE, items |-> items, storedItems |-> storedItems,
           threads |-> threads, storedThreads |-> storedThreads,
           status |-> threadStatus, active |-> activeTweetId, result |-> NoRec]
     ELSE [found |-> TRUE,
           items |-> RemoveAt(items, index),
           storedItems |-> persistItems(RemoveAt(items, index)),
           threads |-> thr,
           storedThreads |-> IF tweetId \in DOMAIN threads
                             THEN persistThreads(thr, now) ELSE storedThreads,
           status |-> Drop(threadStatus, tweetId),
           active |-> IF activeTweetId = tweetId THEN Null ELSE activeTweetId,
           result |-> [item |-> items[index], index |-> index - 1,
                       thread |-> IF tweetId \in DOMAIN threads
                                  THEN threads[tweetId] ELSE NoRec]]

\* The click listener of the context menu's Delete entry.
contextDelete ==
  /\ contextMenuState # NoRec
  /\ LET d == deleteItem(contextMenuState.item.tweetId)
         m == renderDetail([active |-> d.active, status |-> d.status,
                            reqs |-> threadReqs],
                           d.items, d.threads, apiKey)
     IN /\ items' = d.items
        /\ storedItems' = d.storedItems
        /\ threads' = d.threads
        /\ storedThreads' = d.storedThreads
        /\ SetView(m)
        /\ undoState' = IF d.found THEN d.result ELSE undoState
  /\ contextMenuState' = NoRec
  /\ UNCHANGED <<accountVars, apiKeyModalOpen, apiKey, isSaving, isAuthenticating, saves, verifyReqs, now>>

\* The undo toast's five-second timer.
toastTimeout ==
  /\ undoState # NoRec
  /\ undoState' = NoRec
  /\ UNCHANGED <<accountVars, apiKeyModalOpen, items, storedItems, threads, storedThreads, threadStatus,
                 activeTweetId, apiKey, isSaving, isAuthenticating,
                 contextMenuState, saves, threadReqs, verifyReqs, now>>

undoDelete ==
  /\ undoState # NoRec
  /\ Len(items) < MaxItems
  /\ LET item == undoState.item
         insertIndex == Min(undoState.index, Len(items))
         its == InsertAt(items, insertIndex + 1, item)
         thr == IF undoState.thread # NoRec
                THEN Put(threads, item.tweetId, undoState.thread) ELSE threads
         st == IF undoState.thread # NoRec
               THEN Put(threadStatus, item.tweetId,
                        [loading |-> FALSE, error |-> Null])
               ELSE threadStatus
         m == renderDetail([active |-> activeTweetId, status |-> st,
                            reqs |-> threadReqs], its, thr, apiKey)
     IN /\ items' = its
        /\ storedItems' = persistItems(its)
        /\ threads' = thr
        /\ storedThreads' = IF undoState.thread # NoRec
                            THEN persistThreads(thr, now) ELSE storedThreads
        /\ SetView(m)
  /\ undoState' = NoRec
  /\ contextMenuState' = NoRec
  /\ UNCHANGED <<accountVars, apiKeyModalOpen, apiKey, isSaving, isAuthenticating, saves, verifyReqs, now>>

\* ------------------------------------------------------------ detail view
\* The click listener renderItems puts on every item that is not pending.
selectItem(i) ==
  /\ i \in 1..Len(items)
  /\ ~items[i].isPending
  /\ SetView(renderDetail([View EXCEPT !.active = items[i].tweetId],
                          items, threads, apiKey))
  /\ contextMenuState' = NoRec
  /\ UNCHANGED <<accountVars, apiKeyModalOpen, items, storedItems, threads, storedThreads, apiKey, isSaving,
                 isAuthenticating, undoState, saves, verifyReqs, now>>

closeDetailModal ==
  /\ activeTweetId # Null
  /\ activeTweetId' = Null
  /\ contextMenuState' = NoRec
  /\ UNCHANGED <<accountVars, apiKeyModalOpen, items, storedItems, threads, storedThreads, threadStatus,
                 apiKey, isSaving, isAuthenticating, undoState, saves,
                 threadReqs, verifyReqs, now>>

\* The Retry button, which renderDetail shows for the active item when its
\* status has an error and no tweets are cached.
retryThread ==
  /\ activeTweetId # Null
  /\ HasItem(items, activeTweetId)
  /\ activeTweetId \in DOMAIN threadStatus
  /\ threadStatus[activeTweetId].error # Null
  /\ IF activeTweetId \in DOMAIN threads
     THEN Len(threads[activeTweetId].tweets) = 0 ELSE TRUE
  /\ SetView(loadThread(View, activeTweetId, TRUE, items, threads, apiKey))
  /\ UNCHANGED <<accountVars, apiKeyModalOpen, items, storedItems, threads, storedThreads, apiKey, isSaving,
                 isAuthenticating, undoState, contextMenuState, saves,
                 verifyReqs, now>>

\* loadThread after its fetch: data is the response, ok FALSE also standing
\* for a fetch that rejected.
threadCompletes(tweetId, data) ==
  /\ threadReqs[tweetId] > 0
  /\ LET reqs == [threadReqs EXCEPT ![tweetId] = @ - 1]
         good == data.ok /\ data.isArray /\ Len(data.tweets) > 0
         thr == IF good
                THEN Put(threads, tweetId,
                         [tweets |-> sanitizeThreadTweets(data.tweets),
                          fetchedAt |-> IF IsNumber(data.fetchedAt)
                                        THEN data.fetchedAt ELSE now,
                          rootTweetId |-> Or(data.rootTweetId, tweetId)])
                ELSE threads
         st == updateThreadStatus(threadStatus, tweetId, FALSE,
                                  IF good THEN Null ELSE "error")
     IN /\ threads' = thr
        /\ storedThreads' = IF good THEN persistThreads(thr, now)
                            ELSE storedThreads
        /\ SetView(renderDetail([active |-> activeTweetId, status |-> st,
                                 reqs |-> reqs], items, thr, apiKey))
  /\ UNCHANGED <<accountVars, apiKeyModalOpen, items, storedItems, apiKey, isSaving, isAuthenticating,
                 undoState, contextMenuState, saves, verifyReqs, now>>

\* ---------------------------------------------------------------- API key
\* handleApiKeySubmit with a non-blank key, up to authenticateKey's await: the
\* Save Key button or Enter in the key field of the shown modal.
handleApiKeySubmit(key) ==
  LET req == [key |-> key, skipRemoteStore |-> FALSE]
  IN /\ apiKeyModalOpen
     /\ verifyReqs[req] < MaxVerifyReqs
     /\ isAuthenticating' = TRUE
     /\ verifyReqs' = [verifyReqs EXCEPT ![req] = @ + 1]
     /\ UNCHANGED <<accountVars, apiKeyModalOpen, items, storedItems, threads,
                    storedThreads, threadStatus, activeTweetId, apiKey,
                    isSaving, undoState, contextMenuState, saves, threadReqs,
                    now>>

\* authenticateKey(req.key, req) after /api/verify answered, ok or not, with
\* data.credits, and what its caller does next: handleApiKeySubmit hides the
\* modal after a success, refreshRemoteApiKey (the caller that skips the
\* remote store) warns after a failure.
verifyCompletes(req, ok, data) ==
  /\ verifyReqs[req] > 0
  /\ verifyReqs' = [verifyReqs EXCEPT ![req] = @ - 1]
  /\ isAuthenticating' = FALSE
  /\ apiKey' = keyAfterVerify(req.key, ok, apiKey)
  /\ IF ok
     THEN /\ credits' = data
          /\ storedApiKey' = persistApiKey(storedApiKey, req.key)
          /\ IF storesRemotely(req, authStatus)
             THEN /\ storeReqs[req.key] < MaxStoreReqs
                  /\ storeReqs' = [storeReqs EXCEPT ![req.key] = @ + 1]
             ELSE UNCHANGED storeReqs
          /\ keyPromptPending' = FALSE
          /\ apiKeyModalOpen' = IF req.skipRemoteStore THEN apiKeyModalOpen
                                ELSE FALSE
          /\ UNCHANGED syncWarning
     ELSE /\ syncWarning' = IF req.skipRemoteStore THEN "verify"
                            ELSE syncWarning
          /\ UNCHANGED <<credits, storedApiKey, storeReqs,
                         keyPromptPending, apiKeyModalOpen>>
  /\ UNCHANGED <<items, storedItems, threads, storedThreads, threadStatus,
                 activeTweetId, isSaving, undoState, contextMenuState, saves,
                 threadReqs, now, authAvailable, authStatus, remoteKey,
                 fetchReqs>>

\* The modal's Cancel button or Escape in its key field.
cancelApiKeyModal ==
  /\ apiKeyModalOpen
  /\ apiKeyModalOpen' = FALSE
  /\ UNCHANGED <<accountVars, items, storedItems, threads, storedThreads, threadStatus,
                 activeTweetId, apiKey, isSaving, isAuthenticating, undoState,
                 contextMenuState, saves, threadReqs, verifyReqs, now>>

\* The browser's clock moves on.
tick ==
  /\ now < MaxClock
  /\ now' = now + 1
  /\ UNCHANGED <<accountVars, apiKeyModalOpen, items, storedItems, threads, storedThreads, threadStatus,
                 activeTweetId, apiKey, isSaving, isAuthenticating, undoState,
                 contextMenuState, saves, threadReqs, verifyReqs>>

\* ------------------------------------------------------ the client's steps
Init ==
  /\ ClientFresh
  /\ AccountFresh(FALSE)
  /\ storedItems = Absent
  /\ storedThreads = Absent
  /\ now = 0
  /\ ProxyIdle
  /\ KeysIdle
  /\ SequenceIdle
  /\ KeysConfigured

ClientNext ==
  \/ initialize
  \/ \E input \in TweetIds \cup {Null} : handleSave(input)
  \/ \E req \in saves : saveSucceeds(req)
  \/ \E req \in saves : saveFails(req)
  \/ \E i \in 1..Len(items) : openContextMenu(i)
  \/ contextDelete
  \/ toastTimeout
  \/ undoDelete
  \/ \E i \in 1..Len(items) : selectItem(i)
  \/ closeDetailModal
  \/ retryThread
  \/ \E id \in TweetIds, data \in ThreadResponses : threadCompletes(id, data)
  \/ \E key \in Keys : handleApiKeySubmit(key)
  \/ \E req \in VerifyRequests, ok \in BOOLEAN, data \in CreditsAnswers :
       verifyCompletes(req, ok, data)
  \/ cancelApiKeyModal
  \/ tick

Next ==
  /\ ClientNext
  /\ \A id \in TweetIds : threadReqs'[id] <= MaxThreadReqs
  /\ UNCHANGED <<historyVars, proxyVars, keyVars, sequenceVars>>

Spec == Init /\ [][Next]_vars

\* ------------------------------------------------ the thread loads' steps
\* The client within one page load and one clock reading, where as many as
\* MaxOverlap /api/thread requests of one tweet are in flight.
\* The entry of tweetId in state.threads and in the persisted cache, NoRec
\* where there is none.
ThreadEntry(thr, tweetId) ==
  IF tweetId \in DOMAIN thr THEN thr[tweetId] ELSE NoRec

StoredThreadEntry(stored, tweetId) ==
  IF stored.kind = "object" /\ tweetId \in DOMAIN stored.val
  THEN stored.val[tweetId] ELSE NoRec

\* What deleteItem(tweetId) is about to change.
FoundByDelete(tweetId) ==
  [tweetId |-> tweetId,
   items |-> items,
   thread |-> ThreadEntry(threads, tweetId),
   storedItems |-> storedItems,
   storedThread |-> StoredThreadEntry(storedThreads, tweetId)]

\* loadThread's answer makes it throw (src/app.js:2815-2822).
ThreadFailed(data) == ~(data.ok /\ data.isArray /\ Len(data.tweets) > 0)

ThreadNext ==
  \/ /\ \/ \E input \in TweetIds \cup {Null} : handleSave(input)
        \/ \E req \in saves : saveSucceeds(req)
        \/ \E req \in saves : saveFails(req)
        \/ toastTimeout
        \/ undoDelete
     /\ beforeDelete' = NoRec
     /\ UNCHANGED failedLoads
  \/ /\ contextDelete
     /\ beforeDelete' =
          IF deleteItem(contextMenuState.item.tweetId).found
          THEN FoundByDelete(contextMenuState.item.tweetId) ELSE NoRec
     /\ UNCHANGED failedLoads
  \/ /\ retryThread
     /\ failedLoads' = failedLoads \ {activeTweetId}
     /\ UNCHANGED beforeDelete
  \/ \E id \in TweetIds, data \in ThreadResponses :
       /\ threadCompletes(id, data)
       /\ failedLoads' = IF ThreadFailed(data) THEN failedLoads \cup {id}
                                               ELSE failedLoads \ {id}
       /\ UNCHANGED beforeDelete
  \/ /\ \/ \E i \in 1..Len(items) : openContextMenu(i)
        \/ \E i \in 1..Len(items) : selectItem(i)
        \/ closeDetailModal
        \/ \E key \in Keys : handleApiKeySubmit(key)
        \/ \E req \in VerifyRequests, ok \in BOOLEAN, data \in CreditsAnswers :
             verifyCompletes(req, ok, data)
        \/ cancelApiKeyModal
     /\ UNCHANGED historyVars

NextThreads == ThreadNext /\ UNCHANGED <<proxyVars, keyVars, sequenceVars>>

SpecThreads == Init /\ [][NextThreads]_vars

\* ----------------------------------------------------- the account's steps
\* The client with a Firebase config, for a user who saves no tweet: the
\* sign-in state, the key modal and the cloud copy of the key.
itemVars == <<items, storedItems, threads, storedThreads, threadStatus,
              activeTweetId, isSaving, undoState, contextMenuState, saves,
              threadReqs, now>>

\* promptForApiKey: the modal is shown and keyPromptPending cleared.
promptForApiKey ==
  /\ apiKeyModalOpen' = TRUE
  /\ keyPromptPending' = FALSE

\* The subscriber of initialize (src/app.js:1413), called with the auth
\* state at `status`: renderAuthState, then refreshRemoteApiKey up to its
\* await for 'signed-in'.
authStateChanged(status) ==
  /\ authStatus' = status
  /\ IF status = "signed-in"
     THEN /\ fetchReqs < MaxFetchReqs
          /\ fetchReqs' = fetchReqs + 1
          /\ syncWarning' = Null
          /\ UNCHANGED keyPromptPending
     ELSE /\ keyPromptPending' = IF status = "signed-out" \/ apiKey = Null
                                 THEN TRUE ELSE keyPromptPending
          /\ UNCHANGED <<fetchReqs, syncWarning>>
  /\ UNCHANGED <<itemVars, apiKey, isAuthenticating, apiKeyModalOpen,
                 verifyReqs, authAvailable, credits, remoteKey, storeReqs,
                 storedApiKey>>

\* initializeFirebaseApp did not become ready, or the auth module failed to
\* load (src/services/auth.js:53, 89, 95).
authUnavailable ==
  /\ authStatus = "initializing"
  /\ authStateChanged("offline-only")

\* onAuthStateChanged with a user: a session restored after a load, or a
\* magic link completed.
signedIn ==
  /\ authStatus \in {"initializing", "signed-out", "link-sent"}
  /\ authStateChanged("signed-in")

\* onAuthStateChanged with no user: no session after a load, or signOutUser.
signedOut ==
  /\ authStatus \in {"initializing", "signed-in"}
  /\ authStateChanged("signed-out")

\* requestMagicLink after sendSignInLinkToEmail.
requestMagicLink ==
  /\ authStatus \in {"signed-out", "link-sent"}
  /\ authStateChanged("link-sent")

\* notifySubscribers with the status as it is: completeSignInFromLink after
\* signInWithEmailLink, or an error recorded in the auth state.
authNotified ==
  /\ authStatus \in {"signed-in", "signed-out", "link-sent"}
  /\ authStateChanged(authStatus)

\* refreshRemoteApiKey that never takes the fetched key up: C15 fails of it.
appliesRemoteKeyNever(fetched, current) == FALSE

\* refreshRemoteApiKey's test of the fetched key (src/app.js:1932): a key
\* of the store is trimmed and not empty (src/server.js:373), so what is
\* left of the test is that it differs from state.apiKey.
appliesRemoteKey(fetched, current) == fetched # current

\* refreshRemoteApiKey after fetchRemoteApiKey: it returned the store's key
\* ("key"), returned none for a 204, a 401 or a missing id token ("none"),
\* or threw ("error").
fetchCompletes(outcome) ==
  /\ fetchReqs > 0
  /\ fetchReqs' = fetchReqs - 1
  /\ CASE outcome = "none" ->
            /\ remoteKey = Null \/ authStatus # "signed-in"
            /\ IF keyPromptPending \/ apiKey = Null
               THEN promptForApiKey
               ELSE UNCHANGED <<apiKeyModalOpen, keyPromptPending>>
            /\ UNCHANGED <<isAuthenticating, verifyReqs, syncWarning>>
       [] outcome = "key" ->
            /\ remoteKey # Null
            /\ IF ~appliesRemoteKey(remoteKey, apiKey)
               THEN /\ keyPromptPending' = FALSE
                    /\ UNCHANGED <<isAuthenticating, verifyReqs>>
               ELSE LET req == [key |-> remoteKey, skipRemoteStore |-> TRUE]
                    IN /\ verifyReqs[req] < MaxVerifyReqs
                       /\ isAuthenticating' = TRUE
                       /\ verifyReqs' = [verifyReqs EXCEPT ![req] = @ + 1]
                       /\ UNCHANGED keyPromptPending
            /\ UNCHANGED <<apiKeyModalOpen, syncWarning>>
       [] outcome = "error" ->
            /\ syncWarning' = "fetch"
            /\ UNCHANGED <<apiKeyModalOpen, keyPromptPending,
                           isAuthenticating, verifyReqs>>
  /\ UNCHANGED <<itemVars, apiKey, authAvailable, authStatus, credits,
                 remoteKey, storeReqs, storedApiKey>>

\* storeRemoteApiKey(key) is over: its POST was answered 204 (stored), or it
\* was not sent or was answered otherwise.
storeCompletes(key, stored) ==
  /\ storeReqs[key] > 0
  /\ storeReqs' = [storeReqs EXCEPT ![key] = @ - 1]
  /\ remoteKey' = IF stored THEN key ELSE remoteKey
  /\ UNCHANGED <<clientVars, authAvailable, authStatus, keyPromptPending,
                 credits, fetchReqs, syncWarning, storedApiKey>>

\* 'Replace key' of the profile menu, which opens for a signed-in user only
\* (src/app.js:1291, 1306).
replaceKey ==
  /\ authStatus = "signed-in"
  /\ promptForApiKey
  /\ UNCHANGED <<itemVars, apiKey, isAuthenticating, verifyReqs,
                 authAvailable, authStatus, credits, remoteKey, fetchReqs,
                 storeReqs, syncWarning, storedApiKey>>

\* Save pressed with no key connected: handleSave shows the key modal.
saveWithoutKey ==
  /\ apiKey = Null
  /\ ~apiKeyModalOpen
  /\ handleSave(Null)

InitAccount ==
  /\ ClientFresh
  /\ storedItems = Absent
  /\ storedThreads = Absent
  /\ now = 0
  /\ authAvailable = TRUE
  /\ authStatus = "initializing"
  /\ keyPromptPending = TRUE
  /\ credits = Null
  /\ remoteKey \in {Null} \cup StoreKeys
  /\ fetchReqs = 0
  /\ storeReqs = NoStoreReqs
  /\ syncWarning = Null
  /\ storedApiKey \in {Null} \cup Keys
  /\ ProxyIdle
  /\ KeysIdle
  /\ KeysConfigured
  /\ SequenceIdle

\* fetchRemoteApiKey settles.
FetchStep ==
  /\ \E outcome \in {"none", "key", "error"} : fetchCompletes(outcome)
  /\ UNCHANGED <<historyVars, proxyVars, keyVars, sequenceVars>>

\* The fetch of /api/verify for req settles.
VerifyStep(req) ==
  /\ \E ok \in BOOLEAN, data \in CreditsAnswers : verifyCompletes(req, ok, data)
  /\ UNCHANGED <<historyVars, proxyVars, keyVars, sequenceVars>>

AccountNext ==
  \/ initialize
  \/ authUnavailable
  \/ signedIn
  \/ signedOut
  \/ requestMagicLink
  \/ authNotified
  \/ FetchStep
  \/ \E req \in VerifyRequests : VerifyStep(req)
  \/ \E key \in Keys \cup StoreKeys, stored \in BOOLEAN :
       storeCompletes(key, stored)
  \/ replaceKey
  \/ saveWithoutKey
  \/ \E key \in Keys : handleApiKeySubmit(key)
  \/ cancelApiKeyModal

NextAccount == AccountNext /\ UNCHANGED <<historyVars, proxyVars, keyVars, sequenceVars>>

\* Every request of the client is answered: a refreshRemoteApiKey or an
\* authenticateKey that awaits goes on.
SpecAccount ==
  /\ InitAccount
  /\ [][NextAccount]_vars
  /\ WF_vars(FetchStep)
  /\ \A req \in VerifyRequests : WF_vars(VerifyStep(req))

\* ------------------------------------------------------- the proxy's steps
\* A request arrives at /api/verify, /api/tweets or /api/thread: the handler
\* up to its first await, or to the 400 it answers with.
proxyRequest(req) ==
  /\ pxPhase = "idle"
  /\ pxReq' = req
  /\ pxTweets' = <<>>
  /\ seenIds' = {}
  /\ collectedTweets' = <<>>
  /\ hasNextPage' = FALSE
  /\ attempts' = 0
  /\ rootTweetId' = Null
  /\ pxPages' = <<>>
  /\ LET apiKey_ == extractApiKey(req)
     IN IF apiKey_ = <<>>
        THEN /\ pxStatus' = 400
             /\ pxPhase' = "done"
             /\ pxForwards' = <<>>
             /\ nextCursor' = ""
        ELSE IF /\ req.route \in {"tweets", "thread"}
                /\ (req.tweetId.type # "string" \/ req.tweetId.val = "")
        THEN /\ pxStatus' = 400
             /\ pxPhase' = "done"
             /\ pxForwards' = <<>>
             /\ nextCursor' = ""
        ELSE /\ pxStatus' = NoNum
             /\ pxPhase' = "await"
             /\ pxForwards' = <<apiKey_>>
             /\ nextCursor' = IF req.route = "thread" /\ req.cursor.type = "string"
                              THEN req.cursor.val ELSE ""
  /\ UNCHANGED <<clientVars, historyVars, accountVars>>

Respond(status) ==
  /\ pxStatus' = status
  /\ pxPhase' = "done"

\* /api/verify after forwardRequest returned.
verifyAnswered(ok, status) ==
  /\ pxPhase = "await"
  /\ pxReq.route = "verify"
  /\ Respond(IF ok THEN 200 ELSE status)
  /\ UNCHANGED <<clientVars, historyVars, accountVars, pxReq, pxForwards, pxTweets, seenIds,
                 collectedTweets, hasNextPage, nextCursor, attempts,
                 rootTweetId, pxPages>>

\* /api/tweets after forwardRequest returned.
tweetsAnswered(ok, status, payload) ==
  /\ pxPhase = "await"
  /\ pxReq.route = "tweets"
  /\ Respond(IF ~ok THEN status
             ELSE IF payload.status # "success" \/ ~payload.tweets.isArray THEN 502
             ELSE IF payload.tweets.val = <<>> THEN 404
             ELSE 200)
  /\ UNCHANGED <<clientVars, historyVars, accountVars, pxReq, pxForwards, pxTweets, seenIds,
                 collectedTweets, hasNextPage, nextCursor, attempts,
                 rootTweetId, pxPages>>

\* /api/thread after forwardRequest returned a page: the rest of the loop
\* body, the loop test, and either the next forwardRequest or the response.
threadPageAnswered(ok, status, payload) ==
  /\ pxPhase = "await"
  /\ pxReq.route = "thread"
  /\ IF ~ok
     THEN /\ Respond(status)
          /\ UNCHANGED <<pxForwards, pxTweets, seenIds, collectedTweets,
                         hasNextPage, nextCursor, attempts, rootTweetId, pxPages>>
     ELSE LET page == pageTweets(payload)
              got == collectPage(page, seenIds, collectedTweets)
              has == Coalesce(payload.has_next_page,
                              Coalesce(payload.hasNextPage, "false")) = "true"
              cursor == Coalesce(payload.next_cursor,
                                 Coalesce(payload.nextCursor, ""))
          IN /\ Len(pxPages) + Len(page) <= MaxFetched
             /\ pxPages' = pxPages \o page
             /\ rootTweetId' =
                  IF rootTweetId # Null THEN rootTweetId
                  ELSE Or(payload.tweet.id,
                          Or(payload.original_tweet_id,
                             Or(payload.originalTweetId, pxReq.tweetId.val)))
             /\ seenIds' = got.seen
             /\ collectedTweets' = got.collected
             /\ hasNextPage' = has
             /\ nextCursor' = cursor
             /\ attempts' = attempts + 1
             /\ IF morePages(has, cursor, attempts + 1)
                THEN /\ pxForwards' = Append(pxForwards, pxForwards[1])
                     /\ UNCHANGED <<pxStatus, pxPhase, pxTweets>>
                ELSE /\ Respond(200)
                     /\ pxTweets' = got.collected
                     /\ UNCHANGED pxForwards
  /\ UNCHANGED <<clientVars, historyVars, accountVars, pxReq>>

\* The handler has returned and its locals are gone. The three routes share
\* no state, so one request at a time shows all they do.
proxyReturns ==
  /\ pxPhase = "done"
  /\ pxPhase' = "idle"
  /\ pxReq' = <<>>
  /\ pxForwards' = <<>>
  /\ pxStatus' = NoNum
  /\ pxTweets' = <<>>
  /\ seenIds' = {}
  /\ collectedTweets' = <<>>
  /\ hasNextPage' = FALSE
  /\ nextCursor' = ""
  /\ attempts' = 0
  /\ rootTweetId' = Null
  /\ pxPages' = <<>>
  /\ UNCHANGED <<clientVars, historyVars, accountVars>>

\* forwardRequest threw: the fetch failed, or was aborted after ten seconds.
providerFails ==
  /\ pxPhase = "await"
  /\ Respond(502)
  /\ UNCHANGED <<clientVars, historyVars, accountVars, pxReq, pxForwards, pxTweets, seenIds,
                 collectedTweets, hasNextPage, nextCursor, attempts,
                 rootTweetId, pxPages>>

\* What the requests and the provider's answers are drawn from.
BodyKeys == {Undefined, JsNum, JsStr(<<" ">>), JsStr(<<" ", "a">>)}
HeaderKeys == {Undefined, JsStr(<<" ">>), JsStr(<<"b", " ">>)}
BodyTweetIds == {Undefined, JsNum, JsStr(""), JsStr("t1")}
BodyCursors == {Undefined, JsStr("c0")}

Requests ==
  {Request("verify", b, h, Undefined, Undefined) : b \in BodyKeys, h \in HeaderKeys}
    \cup {Request("tweets", b, h, t, Undefined) :
            b \in BodyKeys, h \in HeaderKeys, t \in BodyTweetIds}
    \cup {Request("thread", b, h, t, c) :
            b \in BodyKeys, h \in HeaderKeys, t \in BodyTweetIds, c \in BodyCursors}

ProviderErrors == {401, 429}

TweetsPayloads ==
  {[status |-> "success", tweets |-> Arr(<<Tweet("t1", Null, Null, Null)>>)],
   [status |-> "success", tweets |-> Arr(<<>>)],
   [status |-> "success", tweets |-> NotArr],
   [status |-> "error", tweets |-> Arr(<<>>)]}

PageEntries ==
  LET a == Tweet("a", Null, Null, Null)
      a2 == Tweet(Null, "a", Null, Null)
      b == Tweet(Null, Null, "b", Null)
      n == Tweet(Null, Null, Null, "a")
  IN {<<>>, <<a>>, <<b>>, <<a, a2>>, <<b, a>>, <<n, b>>}

Pagings ==
  {<<"true", Null, "c1", Null>>, <<"false", Null, "c1", Null>>,
   <<Null, "true", Null, "c2">>, <<"true", "true", "", "c1">>,
   <<Null, Null, Null, Null>>}

Roots == {<<Null, Null, Null>>, <<Null, "o", Null>>}

ThreadPayloads ==
  {ThreadPayload(Arr(p), NotArr, g, r) : p \in PageEntries, g \in Pagings, r \in Roots}
    \cup {ThreadPayload(NotArr, Arr(p), g, <<Null, Null, Null>>) :
            p \in {<<Tweet("a", Null, Null, Null)>>}, g \in Pagings}
    \cup {ThreadPayload(NotArr, NotArr, g, <<Null, Null, Null>>) : g \in Pagings}

InitProxy ==
  /\ ClientFresh
  /\ AccountFresh(FALSE)
  /\ storedItems = Absent
  /\ storedThreads = Absent
  /\ now = 0
  /\ ProxyIdle
  /\ KeysIdle
  /\ SequenceIdle
  /\ KeysConfigured

\* A provider response: not ok with an error status, or ok with a payload.
Responses(payloads) ==
  {[ok |-> FALSE, status |-> e, payload |-> <<>>] : e \in ProviderErrors}
    \cup {[ok |-> TRUE, status |-> 200, payload |-> p] : p \in payloads}

ProviderStep ==
  \/ \E r \in Responses({<<>>}) :
       verifyAnswered(r.ok, r.status) /\ UNCHANGED <<keyVars, sequenceVars>>
  \/ \E r \in Responses(TweetsPayloads) :
       tweetsAnswered(r.ok, r.status, r.payload) /\ UNCHANGED <<keyVars, sequenceVars>>
  \/ \E r \in Responses(ThreadPayloads) :
       threadPageAnswered(r.ok, r.status, r.payload) /\ UNCHANGED <<keyVars, sequenceVars>>
  \/ providerFails /\ UNCHANGED <<keyVars, sequenceVars>>

NextProxy ==
  \/ \E req \in Requests : proxyRequest(req) /\ UNCHANGED <<keyVars, sequenceVars>>
  \/ ProviderStep
  \/ proxyReturns /\ UNCHANGED <<keyVars, sequenceVars>>

\* forwardRequest aborts its fetch after ten seconds, so every provider request
\* is answered or fails: weak fairness of the provider's step.
SpecProxy == InitProxy /\ [][NextProxy]_vars /\ WF_vars(ProviderStep)

\* ------------------------------------------------------------------ claims
StoredItemList == IF storedItems.kind = "array" THEN storedItems.val ELSE <<>>
\* The tweet ids the persisted thread cache has an entry (an object) for.
StoredThreadIds ==
  IF storedThreads.kind = "object"
  THEN {id \in DOMAIN storedThreads.val : storedThreads.val[id] # NoRec}
  ELSE {}

\* C1: no two entries of state.items have the same tweetId.
C1_UniqueTweetIds ==
  \A i, j \in 1..Len(items) : i # j => items[i].tweetId # items[j].tweetId

\* C2: leaving pending placeholders aside, savedAt never increases from the
\* head of state.items to its end.
C2_MostRecentFirst ==
  \A i, j \in 1..Len(items) :
    (i < j /\ ~items[i].isPending /\ ~items[j].isPending)
      => items[i].savedAt >= items[j].savedAt

\* C3: whenever no save is in flight, the persisted list equals state.items,
\* entry for entry and in the same order.
C3_PersistedEqualsItems == (saves = {}) => StoredItemList = items

\* C4: for every saved item X, deleteItem(X) returns with no entry for X in
\* state.threads, in state.threadStatus or in the persisted thread cache.
C4_DeleteDropsThread ==
  \A i \in 1..Len(items) :
    LET x == items[i].tweetId
        d == deleteItem(x)
    IN /\ d.found
       /\ x \notin DOMAIN d.threads
       /\ x \notin DOMAIN d.status
       /\ d.storedThreads.kind = "object" => x \notin DOMAIN d.storedThreads.val

\* C4 witness: an item whose thread was cached and persisted has just been
\* deleted, and nothing of the thread is left.
C4_Witness ==
  /\ undoState # NoRec
  /\ undoState.thread # NoRec
  /\ Len(undoState.thread.tweets) > 0
  /\ ~HasItem(items, undoState.item.tweetId)
  /\ undoState.item.tweetId \notin DOMAIN threads \cup StoredThreadIds

\* C5: every key of state.threads is the tweetId of an entry of state.items.
C5_NoOrphanThreads == \A id \in DOMAIN threads : HasItem(items, id)

\* The ids of state.threads with an entry of at least one tweet.
CachedIds == {id \in DOMAIN threads : Len(threads[id].tweets) > 0}

\* C14 as stated: loadThread(tweetId) without force, called in any state
\* where state.threads holds an entry of at least one tweet for tweetId,
\* sends no request, changes nothing, and returns that entry.
C14_CachedThreadReturned ==
  \A id \in CachedIds :
    /\ loadThread(View, id, FALSE, items, threads, apiKey) = View
    /\ loadThreadReturn(threadStatus, id, FALSE, threads, apiKey)
         = [early |-> TRUE, value |-> threads[id]]

\* C14 with the key: in any such state loadThread(tweetId) without force
\* sends no request and changes nothing; it returns the cached entry when
\* state.apiKey is set, and null when it is not.
C14_CachedThreadNotRequested ==
  \A id \in CachedIds :
    /\ loadThread(View, id, FALSE, items, threads, apiKey) = View
    /\ loadThreadReturn(threadStatus, id, FALSE, threads, apiKey)
         = [early |-> TRUE,
            value |-> IF apiKey # Null THEN threads[id] ELSE NoRec]

\* A thread is cached for a saved item, the key is set, and no load of it is
\* under way: a load that the cache alone holds back.
C14_Witness ==
  \E id \in CachedIds :
    /\ apiKey # Null
    /\ HasItem(items, id)
    /\ id \in DOMAIN threadStatus => ~threadStatus[id].loading

\* C17: handleSave for a tweet id that an entry of state.items has sends no
\* request to /api/tweets and leaves state.items, state.threads,
\* state.activeTweetId and the persisted list as they were.
C17_DuplicateSaveIgnored ==
  [][\A input \in TweetIds :
       ((\E i \in 1..Len(items) : items[i].tweetId = input) /\ handleSave(input))
         => /\ saves' = saves
            /\ items' = items
            /\ threads' = threads
            /\ activeTweetId' = activeTweetId
            /\ storedItems' = storedItems
    ]_vars

\* A tweet is saved, a key is connected, nothing is under way and the list
\* has room: only the test for a duplicate keeps a save of it from starting.
C17_Witness ==
  /\ apiKey # Null
  /\ ~isSaving /\ ~isAuthenticating
  /\ Len(items) < MaxItems
  /\ \E i \in 1..Len(items) : items[i].tweetId \in TweetIds /\ ~items[i].isPending

\* C20: at most one fetch to /api/tweets is in flight; while state.isSaving
\* or state.isAuthenticating holds no step starts one (handleSave returns at
\* once); and a step in which a save ends leaves state.isSaving false.
C20_OneSaveAtATime ==
  /\ [](Cardinality(saves) <= 1)
  /\ [][/\ (isSaving \/ isAuthenticating) => saves' \subseteq saves
        /\ \A input \in TweetIds \cup {Null} :
             ((isSaving \/ isAuthenticating) /\ handleSave(input))
               => UNCHANGED vars
        /\ (saves' # saves /\ saves' \subseteq saves) => ~isSaving'
       ]_vars

\* A save is in flight with a key connected and room in the list: only
\* state.isSaving keeps a second save from starting.
C20_Witness ==
  /\ isSaving
  /\ Cardinality(saves) = 1
  /\ apiKey # Null
  /\ Len(items) < MaxItems

\* -------------------------------------------- start-up over any storage
\* What the two storage keys may hold when the page loads: nothing, text that
\* is no JSON, JSON of another shape, or a list / an object whose entries may
\* be null, lack a tweetId, lack tweets, or hold one tweet twice.
RawItems ==
  {NoRec, Item(Null, 0, FALSE), Item(PlaceholderId(0), 0, TRUE)}
    \cup {Item(id, 0, FALSE) : id \in TweetIds}

RawThreads ==
  {NoRec,
   [tweets |-> <<>>, fetchedAt |-> 0, rootTweetId |-> Null],
   [tweets |-> <<Tweet("a", Null, Null, Null)>>, fetchedAt |-> NoNum,
    rootTweetId |-> "a"],
   [tweets |-> <<Tweet("a", Null, Null, Null), Tweet(Null, "a", Null, Null)>>,
    fetchedAt |-> 0, rootTweetId |-> "a"]}

StoredItemsInputs ==
  {Absent, Stored("invalid", <<>>), Stored("other", <<>>)}
    \cup {Stored("array", l) : l \in {<<>>} \cup {<<a>> : a \in RawItems}
                                     \cup {<<a, b>> : a, b \in RawItems}}

StoredThreadsInputs ==
  {Absent, Stored("invalid", <<>>)}
    \cup {Stored("object", f) :
            f \in UNION {[ids -> RawThreads] : ids \in SUBSET TweetIds}}

InitAnyStorage ==
  /\ ClientFresh
  /\ AccountFresh(FALSE)
  /\ storedItems \in StoredItemsInputs
  /\ storedThreads \in StoredThreadsInputs
  /\ now = 0
  /\ ProxyIdle
  /\ KeysIdle
  /\ SequenceIdle
  /\ KeysConfigured

NextInit == (initialize \/ tick) /\ UNCHANGED <<historyVars, proxyVars, keyVars, sequenceVars>>

SpecInit == InitAnyStorage /\ [][NextInit]_vars

\* C6: initialize leaves no thread cache entry, in state.threads or in the
\* persisted thread cache, whose tweetId is not the tweetId of a loaded item.
C6_StartupRemovesOrphans ==
  [][initialize =>
       \A id \in DOMAIN threads' \cup StoredThreadIds' : HasItem(items', id)]_vars

\* ------------------------------------------------- claims about the proxy
\* A body or header value that is a string with a character other than blank.
NonBlank(v) == v.type = "string" /\ \E i \in 1..Len(v.val) : v.val[i] # " "

\* The request passed the checks of the key and of tweetId.
PassedChecks ==
  /\ pxReq # NoRec
  /\ NonBlank(pxReq.apiKey) \/ NonBlank(pxReq.xApiKey)
  /\ pxReq.tweetId.type = "string"
  /\ pxReq.tweetId.val # ""

\* C7: a POST /api/thread request that reaches the page loop has between one
\* and 8 provider page requests issued at every moment; it issues a further
\* one only when the page just read reported a next page with a non-empty
\* cursor; and it responds, whatever the provider returns.
C7_BoundedPaging ==
  /\ [](pxReq # NoRec /\ pxReq.route = "thread" /\ PassedChecks
          => Len(pxForwards) >= 1 /\ Len(pxForwards) <= 8)
  /\ [][pxReq # NoRec /\ pxReq.route = "thread" /\ pxForwards # <<>>
          /\ Len(pxForwards') > Len(pxForwards)
          => hasNextPage' /\ nextCursor' # ""]_vars
  /\ (pxPhase = "await" ~> pxPhase = "done")

\* The eighth page was read, it reported a next page and a cursor, and the
\* response went out.
C7_Witness ==
  /\ pxReq # NoRec
  /\ pxReq.route = "thread"
  /\ pxPhase = "done"
  /\ pxStatus = 200
  /\ Len(pxForwards) = 8
  /\ hasNextPage
  /\ nextCursor # ""

\* The entries of s at the first occurrence of each id, in order.
RECURSIVE FirstOccurrences(_, _)
FirstOccurrences(s, i) ==
  IF i > Len(s) THEN <<>>
  ELSE IF /\ entryId(s[i]) # Null
          /\ \A j \in 1..(i - 1) : entryId(s[j]) # entryId(s[i])
       THEN <<s[i]>> \o FirstOccurrences(s, i + 1)
       ELSE FirstOccurrences(s, i + 1)

ThreadAnswered ==
  /\ pxReq # NoRec
  /\ pxReq.route = "thread"
  /\ pxPhase = "done"
  /\ pxStatus = 200

\* C8: the tweets array of a /api/thread response has no two entries with the
\* same id; it holds, of all the entries of the pages fetched, each id once at
\* the place of its first occurrence, and no entry without an id.
C8_ThreadTweetsDeduplicated ==
  ThreadAnswered =>
    /\ \A i, j \in 1..Len(pxTweets) :
         i # j => entryId(pxTweets[i]) # entryId(pxTweets[j])
    /\ \A i \in 1..Len(pxTweets) : entryId(pxTweets[i]) # Null
    /\ pxTweets = FirstOccurrences(pxPages, 1)

\* Two pages were read, an id came twice, an entry had no id.
C8_Witness ==
  /\ ThreadAnswered
  /\ attempts >= 2
  /\ \E i, j \in 1..Len(pxPages) :
       i < j /\ entryId(pxPages[i]) # Null /\ entryId(pxPages[i]) = entryId(pxPages[j])
  /\ \E i \in 1..Len(pxPages) : entryId(pxPages[i]) = Null
  /\ Len(pxTweets) >= 1

\* C9: a request to /api/verify, /api/tweets or /api/thread with no non-blank
\* apiKey in the body and no non-blank X-API-Key header is answered 400 and
\* nothing is forwarded; with both present, what is forwarded is the body key.
C9_KeyRequired ==
  pxReq # NoRec =>
    /\ ~NonBlank(pxReq.apiKey) /\ ~NonBlank(pxReq.xApiKey)
         => pxStatus = 400 /\ pxPhase = "done" /\ pxForwards = <<>>
    /\ NonBlank(pxReq.apiKey) /\ NonBlank(pxReq.xApiKey)
         => \A i \in 1..Len(pxForwards) : pxForwards[i] = Trim(pxReq.apiKey.val)

\* Body and header carry different keys and the provider was called twice.
C9_Witness ==
  /\ pxReq # NoRec
  /\ NonBlank(pxReq.apiKey)
  /\ NonBlank(pxReq.xApiKey)
  /\ Trim(pxReq.apiKey.val) # Trim(pxReq.xApiKey.val)
  /\ Len(pxForwards) >= 2

\* --------------------------------------------------- /api/user/api-key
\* crypto.randomBytes(12)
Ivs == 1..NumIvs

\* AES-256-GCM, symbolically: the ciphertext opens only under the key and iv
\* it was made with, and the tag binds key, iv and ciphertext. This is what
\* Buffer.concat([iv, authTag, ciphertext]) carries; it is 28 bytes and more.
Ciphertext(key, iv, text) == [key |-> key, iv |-> iv, text |-> text]
AuthTag(key, iv, ct) == <<key, iv, ct>>

\* The payload encryptApiKey makes under a key.
Encrypted(key, iv, value) ==
  LET ct == Ciphertext(key, iv, value)
  IN [iv |-> iv, authTag |-> AuthTag(key, iv, ct), ciphertext |-> ct]

\* encryptApiKey going on without a secret, the value under no key: C12
\* fails of it.
encryptApiKeyUnkeyed(value, iv) ==
  [ok |-> TRUE, value |-> Encrypted(encryptionKey, iv, value)]

\* encryptApiKey: [ok, value]; ok is FALSE where it throws, for want of
\* encryptionKey.
encryptApiKey(value, iv) ==
  IF encryptionKey = Null THEN [ok |-> FALSE, value |-> <<>>]
  ELSE [ok |-> TRUE, value |-> Encrypted(encryptionKey, iv, value)]

\* decryptApiKey: [ok, text]; ok is FALSE where it throws.
decryptApiKey(payload) ==
  IF /\ encryptionKey # Null
     /\ payload.authTag = AuthTag(encryptionKey, payload.iv, payload.ciphertext)
     /\ payload.ciphertext.key = encryptionKey
     /\ payload.ciphertext.iv = payload.iv
  THEN [ok |-> TRUE, text |-> payload.ciphertext.text]
  ELSE [ok |-> FALSE, text |-> <<>>]

\* firebaseAuth.verifyIdToken: the uid of a token it accepts, Null otherwise.
verifyIdToken(token) ==
  IF \E u \in Uids : token = "tok-" \o u
  THEN CHOOSE u \in Uids : token = "tok-" \o u
  ELSE Null

\* A token string trimmed, "" when blank; null is Null.
Bearer(rest) == [scheme |-> "Bearer", rest |-> rest]
NoAuthorization == [scheme |-> "none", rest |-> ""]

\* extractAuthToken: the token, Null for null.
extractAuthToken(req) ==
  IF req.authorization.scheme = "Bearer"
  THEN (IF req.authorization.rest # "" THEN req.authorization.rest ELSE Null)
  ELSE IF req.xFirebaseToken # Null /\ req.xFirebaseToken # ""
  THEN req.xFirebaseToken
  ELSE LET bodyToken == IF req.idToken # Null /\ req.idToken # ""
                        THEN req.idToken ELSE req.token
       IN IF bodyToken # Null /\ bodyToken # "" THEN bodyToken ELSE Null

\* authenticateFirebase taking any token it is given for the first user's,
\* configured or not: C11 fails of it.
authenticateFirebaseUnverified(req) ==
  IF extractAuthToken(req) = Null THEN [status |-> 401, uid |-> Null]
  ELSE [status |-> 0, uid |-> "u1"]

\* authenticateFirebase: [status, uid]; status 0 where it calls next().
authenticateFirebase(req) ==
  IF ~firebaseAuth THEN [status |-> 503, uid |-> Null]
  ELSE IF extractAuthToken(req) = Null THEN [status |-> 401, uid |-> Null]
  ELSE IF verifyIdToken(extractAuthToken(req)) = Null
  THEN [status |-> 401, uid |-> Null]
  ELSE [status |-> 0, uid |-> verifyIdToken(extractAuthToken(req))]

\* loadKeyStore: the cache after it.
loadKeyStore ==
  IF ~keyStoreCache.isNull THEN keyStoreCache
  ELSE [isNull |-> FALSE,
        store |-> IF keyStoreFile.exists THEN keyStoreFile.store ELSE <<>>]

KeyResponse(route, uid, status, key) ==
  [route |-> route, uid |-> uid, status |-> status, apiKey |-> key]

KeyRequest(authorization, xFirebaseToken, bodyTokens, bodyKey) ==
  [authorization |-> authorization, xFirebaseToken |-> xFirebaseToken,
   idToken |-> bodyTokens[1], token |-> bodyTokens[2], apiKey |-> bodyKey]

\* POST /api/user/api-key. iv is what crypto.randomBytes returns; writeOk is
\* whether ensureDataDir and fs.writeFileSync return (they throw otherwise).
postApiKey(req, iv, writeOk) ==
  LET auth == authenticateFirebase(req)
      incomingKey == IF req.apiKey.type = "string" THEN Trim(req.apiKey.val)
                     ELSE <<>>
      store == loadKeyStore.store
      encrypted == encryptApiKey(incomingKey, iv)
      stored == Put(store, auth.uid,
                    [value |-> encrypted.value, updatedAt |-> now])
  IN /\ IF auth.status # 0
        THEN /\ ksResp' = KeyResponse("POST", Null, auth.status, <<>>)
             /\ UNCHANGED <<keyStoreCache, keyStoreFile, ksExpected>>
        ELSE IF incomingKey = <<>>
        THEN /\ ksResp' = KeyResponse("POST", auth.uid, 400, <<>>)
             /\ UNCHANGED <<keyStoreCache, keyStoreFile, ksExpected>>
        ELSE IF ~encrypted.ok
        THEN /\ ksResp' = KeyResponse("POST", auth.uid, 500, <<>>)
             /\ UNCHANGED <<keyStoreCache, keyStoreFile, ksExpected>>
        ELSE /\ keyStoreCache' = [isNull |-> FALSE, store |-> stored]
             /\ IF writeOk
                THEN /\ keyStoreFile' = [exists |-> TRUE, store |-> stored]
                     /\ ksResp' = KeyResponse("POST", auth.uid, 204, <<>>)
                     /\ ksExpected' = [ksExpected EXCEPT ![auth.uid] = incomingKey]
                ELSE /\ ksResp' = KeyResponse("POST", auth.uid, 500, <<>>)
                     /\ UNCHANGED <<keyStoreFile, ksExpected>>
     /\ ksReq' = req
     /\ UNCHANGED sequenceVars
     /\ UNCHANGED <<clientVars, historyVars, accountVars, proxyVars, firebaseAuth, encryptionKey>>

\* GET /api/user/api-key
getApiKey(req) ==
  LET auth == authenticateFirebase(req)
      store == loadKeyStore.store
  IN /\ IF auth.status # 0
        THEN /\ ksResp' = KeyResponse("GET", Null, auth.status, <<>>)
             /\ UNCHANGED keyStoreCache
        ELSE /\ keyStoreCache' = loadKeyStore
             /\ IF auth.uid \notin DOMAIN store
                THEN ksResp' = KeyResponse("GET", auth.uid, 200, <<>>)
                ELSE LET opened == decryptApiKey(store[auth.uid].value)
                     IN IF opened.ok
                        THEN ksResp' = KeyResponse("GET", auth.uid, 200, opened.text)
                        ELSE ksResp' = KeyResponse("GET", auth.uid, 500, <<>>)
     /\ ksReq' = req
     /\ UNCHANGED sequenceVars
     /\ UNCHANGED <<clientVars, historyVars, accountVars, proxyVars, keyStoreFile, firebaseAuth,
                    encryptionKey, ksExpected>>

\* DELETE /api/user/api-key. Where saveKeyStore throws, Express answers 500.
deleteApiKey(req, writeOk) ==
  LET auth == authenticateFirebase(req)
      store == loadKeyStore.store
  IN /\ IF auth.status # 0
        THEN /\ ksResp' = KeyResponse("DELETE", Null, auth.status, <<>>)
             /\ UNCHANGED <<keyStoreCache, keyStoreFile, ksExpected>>
        ELSE IF auth.uid \notin DOMAIN store
        THEN /\ keyStoreCache' = loadKeyStore
             /\ ksResp' = KeyResponse("DELETE", auth.uid, 204, <<>>)
             /\ ksExpected' = [ksExpected EXCEPT ![auth.uid] = <<>>]
             /\ UNCHANGED keyStoreFile
        ELSE /\ keyStoreCache' = [isNull |-> FALSE, store |-> Drop(store, auth.uid)]
             /\ IF writeOk
                THEN /\ keyStoreFile' = [exists |-> TRUE,
                                         store |-> Drop(store, auth.uid)]
                     /\ ksResp' = KeyResponse("DELETE", auth.uid, 204, <<>>)
                     /\ ksExpected' = [ksExpected EXCEPT ![auth.uid] = <<>>]
                ELSE /\ ksResp' = KeyResponse("DELETE", auth.uid, 500, <<>>)
                     /\ UNCHANGED <<keyStoreFile, ksExpected>>
     /\ ksReq' = req
     /\ UNCHANGED sequenceVars
     /\ UNCHANGED <<clientVars, historyVars, accountVars, proxyVars, firebaseAuth, encryptionKey>>

\* The server process is started again: `let keyStoreCache = null`, and
\* encryptionKey is made from the ENCRYPTION_SECRET of the new environment.
serverRestart(secret) ==
  /\ ~keyStoreCache.isNull \/ secret # encryptionKey
  /\ keyStoreCache' = [isNull |-> TRUE, store |-> <<>>]
  /\ encryptionKey' = secret
  /\ UNCHANGED <<clientVars, historyVars, accountVars, proxyVars, keyStoreFile, firebaseAuth,
                 ksReq, ksResp, ksExpected, sequenceVars>>

\* Where a request carries its token: <<Authorization, X-Firebase-Token,
\* <<body idToken, body token>>>>.
HeaderTokens ==
  {<<NoAuthorization, Null, <<Null, Null>>>>,
   <<Bearer(""), "tok-u2", <<Null, Null>>>>,
   <<Bearer("bad"), Null, <<Null, Null>>>>,
   <<NoAuthorization, "tok-u2", <<Null, Null>>>>}
    \cup {<<Bearer("tok-" \o u), Null, <<Null, Null>>>> : u \in Uids}

BodyTokens ==
  {<<NoAuthorization, "", <<"tok-u1", Null>>>>,
   <<NoAuthorization, Null, <<"", "tok-u2">>>>}

KeyRequests ==
  {KeyRequest(t[1], t[2], t[3], k) :
     t \in HeaderTokens \cup BodyTokens,
     k \in {Undefined, JsStr(<<" ">>), JsStr(<<" ", "a">>), JsStr(<<"b">>)}}

\* GET and DELETE carry no body.
BodylessRequests == {KeyRequest(t[1], t[2], t[3], Undefined) : t \in HeaderTokens}

InitKeys ==
  /\ ClientFresh
  /\ AccountFresh(FALSE)
  /\ storedItems = Absent
  /\ storedThreads = Absent
  /\ now = 0
  /\ ProxyIdle
  /\ KeysIdle
  /\ SequenceIdle
  /\ firebaseAuth \in BOOLEAN
  /\ encryptionKey \in {Null, "secret"}

NextKeys ==
  \/ \E req \in KeyRequests, iv \in Ivs, writeOk \in BOOLEAN :
       postApiKey(req, iv, writeOk)
  \/ \E req \in BodylessRequests : getApiKey(req)
  \/ \E req \in BodylessRequests, writeOk \in BOOLEAN : deleteApiKey(req, writeOk)
  \/ \E secret \in {Null, "secret"} : serverRestart(secret)

SpecKeys == InitKeys /\ [][NextKeys]_vars

\* C10: GET /api/user/api-key for an authenticated user u answers 200 with
\* the trimmed key of u's most recent POST answered 204 if no DELETE of u was
\* answered 204 since, and with apiKey null otherwise; so never with a key
\* that another user stored.
C10_KeyPerUser ==
  ksResp # NoRec /\ ksResp.route = "GET" /\ ksResp.uid # Null
    => ksResp.status = 200 /\ ksResp.apiKey = ksExpected[ksResp.uid]

\* Some header or body field of the request holds a token verifyIdToken accepts.
CarriesVerifiedToken(req) ==
  \/ req.authorization.scheme = "Bearer" /\ verifyIdToken(req.authorization.rest) # Null
  \/ req.xFirebaseToken # Null /\ verifyIdToken(req.xFirebaseToken) # Null
  \/ req.idToken # Null /\ verifyIdToken(req.idToken) # Null
  \/ req.token # Null /\ verifyIdToken(req.token) # Null

\* C11: a POST, GET or DELETE of /api/user/api-key is answered 503 when the
\* auth service is not configured, and 401 when it is and no token of the
\* request verifies; a request answered 401 or 503 leaves the key store, cache
\* and file, as it was (it is neither loaded nor written).
C11_KeyStoreNeedsAuth ==
  [][~(/\ ksReq' = ksReq
         /\ ksResp' = ksResp
         /\ keyStoreCache'.isNull
         /\ keyStoreFile' = keyStoreFile) =>
       /\ ~firebaseAuth => ksResp'.status = 503
       /\ firebaseAuth /\ ~CarriesVerifiedToken(ksReq') => ksResp'.status = 401
       /\ ksResp'.status \in {401, 503} =>
            /\ keyStoreCache' = keyStoreCache
            /\ keyStoreFile' = keyStoreFile]_vars

\* A DELETE with a token that does not verify was answered 401 while the store
\* held a record.
C11_Witness ==
  /\ ksReq # NoRec
  /\ ksResp.route = "DELETE"
  /\ ksResp.status = 401
  /\ ksReq.authorization = Bearer("bad")
  /\ DOMAIN keyStoreFile.store # {}
  /\ ~keyStoreCache.isNull

\* The records of a store.
Records(store) == {store[u] : u \in DOMAIN store}

\* C12: every value the key store holds, in the cache and in the file, is a
\* ciphertext under an encryption key; and a POST of a key by an
\* authenticated user to a server without an encryption secret is answered
\* 500, and no POST to such a server changes the cache or the file.
C12_OnlyEncryptedValues ==
  /\ [](\A r \in Records(keyStoreCache.store) \cup Records(keyStoreFile.store) :
          r.value.ciphertext.key # Null)
  /\ [][encryptionKey = Null /\ ksResp' # NoRec /\ ksResp'.route = "POST"
          /\ (ksReq' # ksReq \/ ksResp' # ksResp) =>
          /\ keyStoreCache' = keyStoreCache
          /\ keyStoreFile' = keyStoreFile
          /\ ksResp'.uid # Null /\ NonBlank(ksReq'.apiKey) => ksResp'.status = 500]_vars

\* A user with a stored record posted a key to a server without a secret and
\* was answered 500.
C12_Witness ==
  /\ encryptionKey = Null
  /\ ksResp # NoRec
  /\ ksResp.route = "POST"
  /\ ksResp.status = 500
  /\ ksResp.uid \in DOMAIN keyStoreFile.store
  /\ ~keyStoreCache.isNull

\* ---------------------------------------------------- buildThreadSequence
\* A tweet as buildThreadSequence reads it: its ids, author and legacy (the
\* two places of an author id and handle the provider's tweets use; the code
\* reads core.user_results and user_results in the same way), and createdAt.
AuthoredTweet(id, restId, author, legacy, createdAt) ==
  [id |-> id, tweet_id |-> Null, tweetId |-> Null, rest_id |-> restId,
   author |-> author, legacy |-> legacy, createdAt |-> createdAt]

\* An author or legacy object: [id, handle]; NoRec when the tweet has none.
Author(id, handle) == [id |-> id, handle |-> handle]

\* String(value).trim() of an author id: "" for a blank one.
normalizeId(value) == IF value = " " THEN "" ELSE value

\* String(value).trim().toLowerCase() of a handle.
normalizeHandle(value) ==
  IF value = " " THEN ""
  ELSE IF value = "Al" THEN "al"
  ELSE value

\* addId and addHandle: the keys one author object adds.
authorObjectKeys(a) ==
  IF a = NoRec THEN {}
  ELSE (IF a.id # Null /\ normalizeId(a.id) # ""
        THEN {"id:" \o normalizeId(a.id)} ELSE {})
       \cup (IF a.handle # Null /\ a.handle # "" /\ normalizeHandle(a.handle) # ""
             THEN {"handle:" \o normalizeHandle(a.handle)} ELSE {})

getAuthorKeys(tweet) ==
  IF tweet = NoRec THEN {}
  ELSE authorObjectKeys(tweet.author) \cup authorObjectKeys(tweet.legacy)

\* The test of pushTweet on authors with every tweet let through: C13 fails
\* of it.
isSameAuthorAlways(authorKeys, rootAuthorKeys) == TRUE

\* authorKeys.some((key) => rootAuthorKeys.has(key))
isSameAuthor(authorKeys, rootAuthorKeys) == authorKeys \cap rootAuthorKeys # {}

\* getTweetTimestamp: NoNum for null. createdAt is NoNum when absent and
\* InvalidDate when new Date(raw) is not a date.
InvalidDate == 0 - 2
getTweetTimestamp(tweet) ==
  IF tweet.createdAt = NoNum \/ tweet.createdAt = InvalidDate THEN NoNum
  ELSE tweet.createdAt

\* pushTweet: [seen, entries] after it.
pushTweet(acc, tweet, allowAnyAuthor, rootAuthorKeys) ==
  IF tweet = NoRec THEN acc
  ELSE LET id == getTweetId(tweet)
       IN IF id = Null \/ id \in acc.seen THEN acc
          ELSE IF /\ ~allowAnyAuthor
                  /\ rootAuthorKeys # {}
                  /\ ~isSameAuthor(getAuthorKeys(tweet), rootAuthorKeys)
          THEN [seen |-> acc.seen \cup {id}, entries |-> acc.entries]
          ELSE [seen |-> acc.seen \cup {id},
                entries |-> Append(acc.entries,
                  [tweet |-> tweet,
                   hasTimestamp |-> getTweetTimestamp(tweet) # NoNum,
                   timestamp |-> IF getTweetTimestamp(tweet) # NoNum
                                 THEN getTweetTimestamp(tweet) ELSE 0,
                   sequence |-> Len(acc.entries)])]

RECURSIVE pushEach(_, _, _)
pushEach(acc, tweets, rootAuthorKeys) ==
  IF tweets = <<>> THEN acc
  ELSE pushEach(pushTweet(acc, Head(tweets), FALSE, rootAuthorKeys),
                Tail(tweets), rootAuthorKeys)

\* The comparator of entries.sort: negative, zero or positive.
compareEntries(a, b) ==
  IF a.hasTimestamp /\ b.hasTimestamp THEN a.timestamp - b.timestamp
  ELSE IF a.hasTimestamp THEN 0 - 1
  ELSE IF b.hasTimestamp THEN 1
  ELSE a.sequence - b.sequence

\* Array.prototype.sort, which is stable: e goes before the first entry it
\* compares less than.
RECURSIVE insertSorted(_, _)
insertSorted(sorted, e) ==
  IF sorted = <<>> THEN <<e>>
  ELSE IF compareEntries(e, Head(sorted)) < 0 THEN <<e>> \o sorted
  ELSE <<Head(sorted)>> \o insertSorted(Tail(sorted), e)

RECURSIVE sortEntries(_, _)
sortEntries(entries, sorted) ==
  IF entries = <<>> THEN sorted
  ELSE sortEntries(Tail(entries), insertSorted(sorted, Head(entries)))

buildThreadSequence(rootTweet, fetchedTweets) ==
  LET rootAuthorKeys == getAuthorKeys(rootTweet)
      first == pushTweet([seen |-> {}, entries |-> <<>>], rootTweet, TRUE,
                         rootAuthorKeys)
      pushed == pushEach(first, fetchedTweets, rootAuthorKeys)
      sorted == sortEntries(pushed.entries, <<>>)
  IN [i \in 1..Len(sorted) |-> sorted[i].tweet]

\* The detail view builds the thread of the item shown (renderDetail).
renderThread(rootTweet, fetchedTweets) ==
  /\ SequenceIdle
  /\ threadRoot' = rootTweet
  /\ threadFetched' = fetchedTweets
  /\ threadSequence' = buildThreadSequence(rootTweet, fetchedTweets)
  /\ UNCHANGED <<clientVars, historyVars, accountVars, proxyVars, keyVars>>

\* renderDetail has put the thread in the page and returned.
threadRendered ==
  /\ ~SequenceIdle
  /\ threadRoot' = NoRec
  /\ threadFetched' = <<>>
  /\ threadSequence' = <<>>
  /\ UNCHANGED <<clientVars, historyVars, accountVars, proxyVars, keyVars>>

\* The tweets it is given: with and without an id, by the root's author under
\* another spelling of the handle, by another author, by no known author.
Authors == {NoRec, Author("1", "Al"), Author(Null, "al"), Author("2", "bo")}

ThreadTweets ==
  {AuthoredTweet(id[1], id[2], a, NoRec, NoNum) :
     id \in {<<"r", Null>>, <<"x", Null>>, <<Null, "x">>, <<Null, Null>>},
     a \in Authors}
    \cup {AuthoredTweet("x", Null, Author(" ", " "), NoRec, NoNum),
          AuthoredTweet("x", Null, Author("1", "Al"), NoRec, 1)}
    \cup {AuthoredTweet("y", Null, NoRec, Author("1", Null), t) :
            t \in {InvalidDate, 2}}

RECURSIVE SeqsUpTo(_, _)
SeqsUpTo(S, n) ==
  IF n = 0 THEN {<<>>}
  ELSE SeqsUpTo(S, n - 1)
         \cup {Append(q, x) : q \in {r \in SeqsUpTo(S, n - 1) : Len(r) = n - 1},
                              x \in S}

InitSequence ==
  /\ ClientFresh
  /\ AccountFresh(FALSE)
  /\ storedItems = Absent
  /\ storedThreads = Absent
  /\ now = 0
  /\ ProxyIdle
  /\ KeysIdle
  /\ KeysConfigured
  /\ SequenceIdle

NextSequence ==
  \/ \E rootTweet \in ThreadTweets \cup {NoRec},
        fetchedTweets \in SeqsUpTo(ThreadTweets, MaxThreadLen) :
       renderThread(rootTweet, fetchedTweets)
  \/ threadRendered

SpecSequence == InitSequence /\ [][NextSequence]_vars

\* A call of buildThreadSequence has returned.
SequenceBuilt == threadRoot # NoRec \/ threadFetched # <<>> \/ threadSequence # <<>>

NoIdTwice(tweets) ==
  \A i, j \in 1..Len(tweets) :
    i # j => getTweetId(tweets[i]) # getTweetId(tweets[j])

OthersShareAuthor(tweets, root) ==
  \A i \in 1..Len(tweets) :
    tweets[i] # root => getAuthorKeys(tweets[i]) \cap getAuthorKeys(root) # {}

\* C13 as stated: for every root tweet and every fetched list, each tweet of
\* the thread built other than the root shares an author id or handle with
\* the root, and no tweet id is in it twice.
C13_SameAuthorThread ==
  OthersShareAuthor(threadSequence, threadRoot) /\ NoIdTwice(threadSequence)

\* C13 for a root tweet that names its author: when the root has an author
\* id or handle, each tweet of the thread built other than the root shares
\* one with it; and for every root no tweet id is in the thread twice.
C13_SameAuthorThreadOfKnownAuthor ==
  /\ getAuthorKeys(threadRoot) # {} =>
       OthersShareAuthor(threadSequence, threadRoot)
  /\ NoIdTwice(threadSequence)

\* The root names its author; of two fetched tweets one is by that author,
\* under another spelling, and is kept, and one is by another and is dropped.
C13_Witness ==
  /\ getAuthorKeys(threadRoot) # {}
  /\ Len(threadFetched) = 2
  /\ Len(threadSequence) = 2
  /\ threadSequence[1] # threadRoot \/ threadSequence[2] # threadRoot
  /\ \E i \in 1..2 :
       /\ getTweetId(threadFetched[i]) # Null
       /\ getTweetId(threadFetched[i]) # getTweetId(threadRoot)
       /\ getAuthorKeys(threadFetched[i]) \cap getAuthorKeys(threadRoot) = {}

\* ------------------------------------------------- the key in the client
\* A step in which authenticateKey(req.key, req) ends.
VerifyEnds(req) == verifyReqs'[req] < verifyReqs[req]

\* C16: no step writes the API key to localStorage; start-up leaves
\* state.apiKey null whatever localStorage holds, and state.apiKey comes to
\* hold a key only in a step where a verification of that key ends.
C16_KeyOnlyInMemory ==
  [][/\ storedApiKey' = storedApiKey
     /\ initialize => apiKey' = Null
     /\ (apiKey = Null /\ apiKey' # Null)
          => \E req \in VerifyRequests : VerifyEnds(req) /\ apiKey' = req.key
    ]_vars

\* A key was verified in a page whose localStorage holds none.
C16_Witness == apiKey # Null /\ storedApiKey = Null /\ authStatus = "signed-in"

C19_KeyChangesOnVerify ==
  [][~initialize =>
       /\ (apiKey' # apiKey \/ credits' # credits)
            => \E req \in VerifyRequests :
                 VerifyEnds(req) /\ apiKey' = req.key
       /\ \A req \in VerifyRequests, data \in CreditsAnswers :
            /\ verifyCompletes(req, FALSE, data)
                 => apiKey' = apiKey /\ credits' = credits
            /\ verifyCompletes(req, TRUE, data) => apiKey' = req.key
    ]_vars

\* A verification has failed in a page that holds a key and credits.
C19_Witness ==
  /\ syncWarning = "verify"
  /\ apiKey # Null
  /\ credits # Null

\* -------------------------------------------------------- cloud sync
\* The user is signed in, a refreshRemoteApiKey awaits the account store,
\* and the store holds k, which state.apiKey is not.
SyncDue(k) ==
  /\ authStatus = "signed-in"
  /\ fetchReqs > 0
  /\ remoteKey = k
  /\ apiKey # k

C21_AuthenticatingWhileVerifying ==
  (\E req \in VerifyRequests : verifyReqs[req] > 0) => isAuthenticating

\* ------------------------------------------------- thread loads in flight
\* C22: for any tweet id, at most one /api/thread request is in flight at a
\* time, whatever the order of selecting, saving, deleting, undoing and
\* retrying.
C22_OneThreadRequestPerTweet ==
  \A id \in TweetIds : threadReqs[id] <= 1

\* ------------------------------------------------ placeholders in storage
\* C23: the persisted items list never holds a pending placeholder, also
\* where an item is deleted or a deletion undone while a save is in flight.
C23_NoPersistedPlaceholder ==
  storedItems.kind = "array" =>
    \A i \in 1..Len(storedItems.val) : ~storedItems.val[i].isPending

\* ----------------------------------------------------- undoing a delete
\* undoDelete has put the item of the undo toast back.
UndoStep ==
  /\ undoState # NoRec
  /\ undoState' = NoRec
  /\ items' # items

\* C24: undoing a context-menu delete, with no other save or delete since,
\* leaves state.items, the item's entry of state.threads, the persisted list
\* and the item's persisted thread as they were before the delete.
C24_UndoRestores ==
  [][(beforeDelete # NoRec /\ UndoStep) =>
       /\ items' = beforeDelete.items
       /\ ThreadEntry(threads', beforeDelete.tweetId) = beforeDelete.thread
       /\ storedItems' = beforeDelete.storedItems
       /\ StoredThreadEntry(storedThreads', beforeDelete.tweetId)
            = beforeDelete.storedThread]_vars

C26_FailedLoadNeedsRetry ==
  [][\A id \in TweetIds :
       /\ (id \notin failedLoads /\ id \in failedLoads') =>
            /\ id \in DOMAIN threadStatus'
            /\ ~threadStatus'[id].loading
            /\ threadStatus'[id].error # Null
       /\ (id \in failedLoads /\ saves' = saves
             /\ threadReqs'[id] > threadReqs[id]) => retryThread
       /\ threadReqs'[id] <= threadReqs[id] + 1]_vars

====
